---- MODULE Spec2Model ----
(***************************************************************************)
(* Video transcoding job: probe -> probe delivery -> OGP rendition ->      *)
(* Main rendition -> report.  Two design variants are modelled:            *)
(*   "file"   src/src/index.ts      (encoder writes a sized temp file)     *)
(*   "stream" src/unnamed/part_000  (encoder stdout is piped to the sink)  *)
(* Node runs one callback at a time and drains the promise continuations   *)
(* of a callback before the next event: an event handler is an action that *)
(* is enabled only while main is suspended on a pending promise, and each  *)
(* Main* action is main's code from one await to the next.                 *)
(***************************************************************************)
EXTENDS Integers, FiniteSets, Sequences, TLC

Targets == {"probe", "ogp", "main"}
Renditions == {"ogp", "main"}
Variants == {"file", "stream"}
NaN == -1
Missing == -1

\* bounds of the model: bytes an encoder writes, bytes of the probe text
MaxBytes == 2
TextBytes == 1

\* policy thresholds of main()
OgpMaxHeight == 720
MainMaxHeight == 1080
OgpMaxDuration == 8 * 60
MaxSize == 50 * 1024 * 1024

VARIABLES
  variant,        \* which of the two sources runs
  dest,           \* PROBE_DEST_URL / OGP_DEST_URL / MAIN_DEST_URL: "none" | "remote" | "local"
  meta,           \* what the probe reports about the source (FILENAME included)
  pc,             \* the await main() is suspended on
  cur,            \* the rendition block main() is in
  raw,            \* rawFFprobeResult: "unset" | "json" | "garbage"
  decision,       \* per rendition: "unevaluated" | "unconfigured" | "skip" | "generate"
  child,          \* the spawned probe / encoder processes
  toolPromise,    \* the promise returned by baseSpawnFFmpeg, per child
  sizePromise,    \* the promise returned by file.getSize()
  sinkPromise,    \* the completion signal main awaits for a delivery
  sink,           \* the delivery sinks made by createOutStream
  tmp,            \* the temporary file of each rendition: "absent" | "present"
  fetchPromises,  \* streaming variant: the in-flight list
  report,         \* the report GET: "none" | "pending" | "reading" | "settled"
  reportOutcome,  \* "none" | "ok" | "bad" | "neterr"
  reportCalls,    \* number of report GETs issued
  proc,           \* "running" | "exited"
  exitCode,
  bytes,          \* sized-file variant: bytes the encoder wrote to its output path
  statSize,       \* sized-file variant: the size getSize() returned
  disposed        \* sized-file variant: how often [Symbol.dispose] ran, per artifact

vars == <<variant, dest, meta, pc, cur, raw, decision, child, toolPromise,
          sizePromise, sinkPromise, sink, tmp, fetchPromises, report,
          reportOutcome, reportCalls, proc, exitCode, bytes, statSize, disposed>>

----------------------------------------------------------------------------
\* Rendition policy (pure)

HeightOr0(m) == IF m.video = "none" \/ m.height = Missing THEN 0 ELSE m.height

\* a comparison with NaN is false
LeqNum(x, bound) == x # NaN /\ x <= bound

hasH264Video(m) == m.mp4 /\ m.video = "h264"
is720pOrLower(m) == HeightOr0(m) <= OgpMaxHeight
is1080pOrLower(m) == HeightOr0(m) <= MainMaxHeight
is50MBOrLower(m) == LeqNum(m.size, MaxSize)

\* mutant: the duration bound is dropped
OgpSkip_NoDuration(m) == hasH264Video(m) /\ is720pOrLower(m) /\ is50MBOrLower(m)

OgpSkip(m) ==
  hasH264Video(m) /\ is720pOrLower(m) /\ LeqNum(m.duration, OgpMaxDuration) /\ is50MBOrLower(m)

\* mutant: the Main policy ignores the container
MainSkip_AnyContainer(m) == m.video = "h264" /\ is1080pOrLower(m)

MainSkip(m) == hasH264Video(m) /\ is1080pOrLower(m)

Skip(r, m) == IF r = "ogp" THEN OgpSkip(m) ELSE MainSkip(m)

Decide(r) ==
  IF dest[r] = "none" THEN "unconfigured"
  ELSE IF Skip(r, meta) THEN "skip" ELSE "generate"

\* audioOptions: pass AAC through, transcode anything else
audioOptions(m) == IF m.audio = "aac" THEN "copy" ELSE "aac128k"

\* the source media the runs are explored with
ProbedMedia ==
  { [mp4 |-> TRUE,  video |-> "h264", height |-> 480,  audio |-> "aac",
     duration |-> 60,  size |-> 10 * 1024 * 1024],
    [mp4 |-> TRUE,  video |-> "h264", height |-> 1080, audio |-> "aac",
     duration |-> 60,  size |-> 10 * 1024 * 1024],
    [mp4 |-> TRUE,  video |-> "h264", height |-> 480,  audio |-> "mp3",
     duration |-> NaN, size |-> 10 * 1024 * 1024],
    [mp4 |-> FALSE, video |-> "vp9",  height |-> 2160, audio |-> "none",
     duration |-> 600, size |-> MaxSize + 1],
    [mp4 |-> TRUE,  video |-> "none", height |-> Missing, audio |-> "aac",
     duration |-> 60, size |-> 1024] }

\* every combination of the policy inputs around the thresholds
AllMedia ==
  { m \in [mp4 : BOOLEAN,
           video : {"none", "h264", "vp9"},
           height : {Missing, OgpMaxHeight, OgpMaxHeight + 1, MainMaxHeight, MainMaxHeight + 1},
           audio : {"none", "aac", "mp3"},
           duration : {NaN, OgpMaxDuration, OgpMaxDuration + 1},
           size : {NaN, MaxSize, MaxSize + 1}] :
      m.video = "none" => m.height = Missing }

----------------------------------------------------------------------------
\* Initial state: the process has started, main() has not run yet

NoChild == [state |-> "none", code |-> 0, out |-> "none"]
\* no content-length header / no size known
NoLength == -1
NoSink ==
  [kind |-> "none", feed |-> "idle", fetch |-> "none", drain |-> "none", file |-> "none",
   length |-> NoLength, sent |-> 0]

Init ==
  /\ variant \in Variants
  /\ dest \in [Targets -> {"none", "remote", "local"}]
  /\ dest["probe"] # "none"
  /\ meta \in ProbedMedia
  /\ pc = "start"
  /\ cur = "probe"
  /\ raw = "unset"
  /\ decision = [r \in Renditions |-> "unevaluated"]
  /\ child = [t \in Targets |-> NoChild]
  /\ toolPromise = [t \in Targets |-> "none"]
  /\ sizePromise = [r \in Renditions |-> "none"]
  /\ sinkPromise = [t \in Targets |-> "none"]
  /\ sink = [t \in Targets |-> NoSink]
  /\ tmp = [r \in Renditions |-> "absent"]
  /\ fetchPromises = <<>>
  /\ report = "none"
  /\ reportOutcome = "none"
  /\ reportCalls = 0
  /\ proc = "running"
  /\ exitCode = 0
  /\ bytes = [r \in Renditions |-> 0]
  /\ statSize = [r \in Renditions |-> NoLength]
  /\ disposed = [r \in Renditions |-> 0]

----------------------------------------------------------------------------
\* Promises and scheduling

\* a promise settles once; later resolve/reject calls are ignored
Settle(p, s) == IF p = "pending" THEN s ELSE p

\* Promise.all of two promises
All2(a, b) ==
  IF a = "rejected" \/ b = "rejected" THEN "rejected"
  ELSE IF a = "resolved" /\ b = "resolved" THEN "resolved" ELSE "pending"

\* mutant: the drain waits for the first recorded PUT only
ensureAllFetchesDone_FirstOnly ==
  fetchPromises = <<>> \/ sink[fetchPromises[1]].fetch # "pending"

\* mutant: the drain does not wait for the recorded PUTs
ensureAllFetchesDone_NoWait == TRUE

\* Promise.allSettled(fetchPromises)
ensureAllFetchesDone ==
  \A i \in 1..Len(fetchPromises) : sink[fetchPromises[i]].fetch # "pending"

\* mutant: main() does not wait for the probe delivery
Awaited_SkipsProbeDelivery ==
  CASE pc = "awaitProbe" -> toolPromise["probe"]
    [] pc = "awaitProbeDelivery" -> "resolved"
    [] pc = "awaitEnc" -> toolPromise[cur]
    [] pc = "awaitSize" -> sizePromise[cur]
    [] pc = "awaitDelivery" -> sinkPromise[cur]
    [] pc = "awaitAll" -> All2(toolPromise[cur], sinkPromise[cur])
    [] pc = "awaitFetches" -> IF ensureAllFetchesDone THEN "resolved" ELSE "pending"
    [] pc = "awaitReport" -> IF report = "settled" THEN "resolved" ELSE "pending"
    [] OTHER -> "pending"

\* the state of the promise main() is suspended on
Awaited ==
  CASE pc = "awaitProbe" -> toolPromise["probe"]
    [] pc = "awaitProbeDelivery" -> sinkPromise["probe"]
    [] pc = "awaitEnc" -> toolPromise[cur]
    [] pc = "awaitSize" -> sizePromise[cur]
    [] pc = "awaitDelivery" -> sinkPromise[cur]
    [] pc = "awaitAll" -> All2(toolPromise[cur], sinkPromise[cur])
    [] pc = "awaitFetches" -> IF ensureAllFetchesDone THEN "resolved" ELSE "pending"
    [] pc = "awaitReport" -> IF report = "settled" THEN "resolved" ELSE "pending"
    [] OTHER -> "pending"

\* main() continues as soon as the awaited promise settles
Resumes(at, how) == proc = "running" /\ pc = at /\ Awaited = how

\* an event callback runs only when no continuation of main() is queued
Suspended == proc = "running" /\ pc # "start" /\ Awaited = "pending"

\* process.exit(code), or the exit after an uncaught error
Exit(code) == proc' = "exited" /\ exitCode' = code

NewSink(kind) ==
  [kind |-> kind, feed |-> "feeding",
   fetch |-> IF kind = "remote" THEN "pending" ELSE "none",
   drain |-> "none",
   file |-> IF kind = "local" THEN "open" ELSE "none",
   length |-> NoLength, sent |-> 0]

\* the sized-file variant passes options.contentLength to createOutStream
SizedSink(kind, contentLength) ==
  IF variant = "file"
  THEN [NewSink(kind) EXCEPT !.length = contentLength]
  ELSE NewSink(kind)

\* fetchForExecution: the streaming variant records every PUT it starts
fetchForExecution(d) ==
  IF variant = "stream" /\ dest[d] = "remote" THEN Append(fetchPromises, d) ELSE fetchPromises

----------------------------------------------------------------------------
\* Child processes

\* the probe process terminates: exit code and what it wrote to stdout
ProbeExit(code, out) ==
  /\ Suspended
  /\ child["probe"].state = "running"
  /\ child' = [child EXCEPT !["probe"] = [state |-> "exited", code |-> code, out |-> out]]
  /\ UNCHANGED <<variant, dest, meta, pc, cur, raw, decision, toolPromise, sizePromise,
                 sinkPromise, sink, tmp, fetchPromises, report, reportOutcome,
                 reportCalls, proc, exitCode>>
  /\ UNCHANGED <<bytes, statSize, disposed>>

\* ffmpeg.stdout.on("end") of the string mode: resolve(output).  The probe
\* holds the write end of the pipe until it terminates, so "end" follows the
\* termination; the child's "close" (ChildClose) follows "end".
ProbeStdoutEnd ==
  /\ Suspended
  /\ child["probe"].state = "exited"
  /\ child' = [child EXCEPT !["probe"].state = "ended"]
  /\ toolPromise' = [toolPromise EXCEPT !["probe"] = Settle(@, "resolved")]
  /\ UNCHANGED <<variant, dest, meta, pc, cur, raw, decision, sizePromise,
                 sinkPromise, sink, tmp, fetchPromises, report, reportOutcome,
                 reportCalls, proc, exitCode>>
  /\ UNCHANGED <<bytes, statSize, disposed>>

\* the encoder creates or partially writes its output path while running
EncWrite(r) ==
  /\ Suspended
  /\ variant = "file"
  /\ child[r].state = "running"
  /\ bytes[r] < MaxBytes
  /\ tmp' = [tmp EXCEPT ![r] = "present"]
  /\ bytes' = [bytes EXCEPT ![r] = @ + 1]
  /\ UNCHANGED <<variant, dest, meta, pc, cur, raw, decision, child, toolPromise,
                 sizePromise, sinkPromise, sink, fetchPromises, report,
                 reportOutcome, reportCalls, proc, exitCode>>
  /\ UNCHANGED <<statSize, disposed>>

\* the encoder terminates; a clean exit has written the whole output file
EncExit(r, code) ==
  /\ Suspended
  /\ child[r].state = "running"
  /\ child' = [child EXCEPT ![r] = [state |-> "exited", code |-> code, out |-> "none"]]
  /\ tmp' = IF variant = "file" /\ code = 0 THEN [tmp EXCEPT ![r] = "present"] ELSE tmp
  /\ UNCHANGED <<variant, dest, meta, pc, cur, raw, decision, toolPromise,
                 sizePromise, sinkPromise, sink, fetchPromises, report,
                 reportOutcome, reportCalls, proc, exitCode>>
  /\ UNCHANGED <<bytes, statSize, disposed>>

\* streaming variant: ffmpeg.stdout.pipe(outStream) ends the pass-through,
\* which ends the sink it is piped into
EncStdoutEnd(r) ==
  /\ Suspended
  /\ variant = "stream"
  /\ child[r].state = "exited"
  /\ child' = [child EXCEPT ![r].state = "ended"]
  /\ sink' = [sink EXCEPT ![r].feed = "ended"]
  /\ UNCHANGED <<variant, dest, meta, pc, cur, raw, decision, toolPromise,
                 sizePromise, sinkPromise, tmp, fetchPromises, report,
                 reportOutcome, reportCalls, proc, exitCode>>
  /\ UNCHANGED <<bytes, statSize, disposed>>

\* mutant: "close" resolves whatever the exit code
CloseSettles_IgnoresCode(t, code, p) == Settle(p, "resolved")

\* what ffmpeg.on("close") does to the promise of baseSpawnFFmpeg
CloseSettles(t, code, p) ==
  IF t = "probe"
  THEN IF code # 0 THEN Settle(p, "rejected") ELSE p
  ELSE Settle(p, IF code = 0 THEN "resolved" ELSE "rejected")

\* "close" is emitted after the process ended and its stdio closed
ReadyToClose(t) ==
  IF t = "probe" \/ variant = "stream"
  THEN child[t].state = "ended"
  ELSE child[t].state = "exited"

ChildClose(t) ==
  /\ Suspended
  /\ ReadyToClose(t)
  /\ child' = [child EXCEPT ![t].state = "closed"]
  /\ toolPromise' = [toolPromise EXCEPT ![t] = CloseSettles(t, child[t].code, @)]
  /\ UNCHANGED <<variant, dest, meta, pc, cur, raw, decision, sizePromise,
                 sinkPromise, sink, tmp, fetchPromises, report, reportOutcome,
                 reportCalls, proc, exitCode>>
  /\ UNCHANGED <<bytes, statSize, disposed>>

----------------------------------------------------------------------------
\* Delivery sinks (createOutStream, waitForStreamFinish)

\* what the piped Readable yields up to its end: the probe text, or the
\* temporary file as it is on disk
SourceBytes(d) == IF d = "probe" THEN TextBytes ELSE bytes[d]

\* the piped Readable (probe text, temp-file reader) has been written through
FeedEnd(d) ==
  /\ Suspended
  /\ d = "probe" \/ variant = "file"
  /\ sink[d].feed = "feeding"
  /\ sink' = [sink EXCEPT ![d].feed = "ended", ![d].sent = SourceBytes(d)]
  /\ UNCHANGED <<variant, dest, meta, pc, cur, raw, decision, child, toolPromise,
                 sizePromise, sinkPromise, tmp, fetchPromises, report,
                 reportOutcome, reportCalls, proc, exitCode>>
  /\ UNCHANGED <<bytes, statSize, disposed>>

\* "error" of the temporary file's read stream in the middle of the transfer:
\* pipe() puts no "error" listener on its source, so the event is an uncaught
\* exception and ends the process
ReaderError(r) ==
  /\ Suspended
  /\ variant = "file"
  /\ sink[r].feed = "feeding"
  /\ sink' = [sink EXCEPT ![r].feed = "error"]
  /\ Exit(1)
  /\ UNCHANGED <<variant, dest, meta, pc, cur, raw, decision, child, toolPromise,
                 sizePromise, sinkPromise, tmp, fetchPromises, report,
                 reportOutcome, reportCalls, bytes, statSize, disposed>>

\* mutant: a non-2xx response is logged but not fatal
OnResponse_NoExit(d, ok) ==
  /\ sink' = [sink EXCEPT ![d].fetch = IF ok THEN "ok" ELSE "bad",
                          ![d].drain = "reading"]
  /\ sinkPromise' = IF variant = "file"
                    THEN [sinkPromise EXCEPT ![d] = Settle(@, "resolved")]
                    ELSE sinkPromise
  /\ UNCHANGED <<proc, exitCode>>

\* what the .then callback of the PUT does with a response
OnResponse(d, ok) ==
  IF ok
  THEN /\ sink' = [sink EXCEPT ![d].fetch = "ok", ![d].drain = "reading"]
       /\ sinkPromise' = IF variant = "file"
                         THEN [sinkPromise EXCEPT ![d] = Settle(@, "resolved")]
                         ELSE sinkPromise
       /\ UNCHANGED <<proc, exitCode>>
  ELSE /\ sink' = [sink EXCEPT ![d].fetch = "bad"]
       /\ Exit(1)
       /\ UNCHANGED sinkPromise

\* the PUT receives its response; a 2xx answers a complete request body, an
\* error status may arrive while the body is still being sent
FetchResponse(d, ok) ==
  /\ Suspended
  /\ sink[d].fetch = "pending"
  /\ ok => sink[d].feed = "ended"
  /\ OnResponse(d, ok)
  /\ UNCHANGED <<variant, dest, meta, pc, cur, raw, decision, child, toolPromise,
                 sizePromise, tmp, fetchPromises, report, reportOutcome, reportCalls>>
  /\ UNCHANGED <<bytes, statSize, disposed>>

\* mutant: the network error is swallowed instead of ending the process
FetchNetErr_Swallowed(d) ==
  /\ Suspended
  /\ sink[d].fetch = "pending"
  /\ sink' = [sink EXCEPT ![d].fetch = "neterr"]
  /\ sinkPromise' = IF variant = "file"
                    THEN [sinkPromise EXCEPT ![d] = Settle(@, "resolved")]
                    ELSE sinkPromise
  /\ UNCHANGED <<variant, dest, meta, pc, cur, raw, decision, child, toolPromise,
                 sizePromise, tmp, fetchPromises, report, reportOutcome,
                 reportCalls, proc, exitCode>>
  /\ UNCHANGED <<bytes, statSize, disposed>>

\* the PUT fails with a network error: the .catch callback
FetchNetErr(d) ==
  /\ Suspended
  /\ sink[d].fetch = "pending"
  /\ sink' = [sink EXCEPT ![d].fetch = "neterr"]
  /\ Exit(1)
  /\ UNCHANGED <<variant, dest, meta, pc, cur, raw, decision, child, toolPromise,
                 sizePromise, sinkPromise, tmp, fetchPromises, report,
                 reportOutcome, reportCalls>>
  /\ UNCHANGED <<bytes, statSize, disposed>>

\* res.arrayBuffer().catch(noop) settles: body read to its end, or the read failed
DrainSettle(d, how) ==
  /\ Suspended
  /\ sink[d].drain = "reading"
  /\ sink' = [sink EXCEPT ![d].drain = how]
  /\ UNCHANGED <<variant, dest, meta, pc, cur, raw, decision, child, toolPromise,
                 sizePromise, sinkPromise, tmp, fetchPromises, report,
                 reportOutcome, reportCalls, proc, exitCode>>
  /\ UNCHANGED <<bytes, statSize, disposed>>

\* local destination: "finish" of the write stream
LocalFinish(d) ==
  /\ Suspended
  /\ sink[d].file = "open"
  /\ sink[d].feed = "ended"
  /\ sink' = [sink EXCEPT ![d].file = "finished"]
  /\ sinkPromise' = [sinkPromise EXCEPT ![d] = Settle(@, "resolved")]
  /\ UNCHANGED <<variant, dest, meta, pc, cur, raw, decision, child, toolPromise,
                 sizePromise, tmp, fetchPromises, report, reportOutcome,
                 reportCalls, proc, exitCode>>
  /\ UNCHANGED <<bytes, statSize, disposed>>

\* mutant: the write error reaches no listener of the completion signal
LocalError_Unreported(d) ==
  /\ Suspended
  /\ sink[d].file = "open"
  /\ sink' = [sink EXCEPT ![d].file = "error",
                          ![d].feed = IF @ = "feeding" THEN "unpiped" ELSE @]
  /\ UNCHANGED <<variant, dest, meta, pc, cur, raw, decision, child, toolPromise,
                 sizePromise, sinkPromise, tmp, fetchPromises, report, reportOutcome,
                 reportCalls, proc, exitCode, bytes, statSize, disposed>>

\* local destination: "error" of the write stream; pipe() unpipes the source
\* from a destination that errored
LocalError(d) ==
  /\ Suspended
  /\ sink[d].file = "open"
  /\ sink' = [sink EXCEPT ![d].file = "error",
                          ![d].feed = IF @ = "feeding" THEN "unpiped" ELSE @]
  /\ sinkPromise' = [sinkPromise EXCEPT ![d] = Settle(@, "rejected")]
  /\ UNCHANGED <<variant, dest, meta, pc, cur, raw, decision, child, toolPromise,
                 sizePromise, tmp, fetchPromises, report, reportOutcome,
                 reportCalls, proc, exitCode>>
  /\ UNCHANGED <<bytes, statSize, disposed>>

\* streaming variant, remote destination: "finish" of the PassThrough that is
\* the request body
PassFinish(d) ==
  /\ Suspended
  /\ variant = "stream"
  /\ sink[d].kind = "remote"
  /\ sink[d].feed = "ended"
  /\ sinkPromise[d] = "pending"
  /\ sinkPromise' = [sinkPromise EXCEPT ![d] = "resolved"]
  /\ UNCHANGED <<variant, dest, meta, pc, cur, raw, decision, child, toolPromise,
                 sizePromise, sink, tmp, fetchPromises, report, reportOutcome,
                 reportCalls, proc, exitCode>>
  /\ UNCHANGED <<bytes, statSize, disposed>>

\* mutant: the size is taken one byte short
StatSize_Short(r) == IF bytes[r] > 0 THEN bytes[r] - 1 ELSE 0

\* (await fs.promises.stat(filename)).size
StatSize(r) == bytes[r]

\* fs.promises.stat(filename) of getSize() completes
StatDone(r) ==
  /\ Suspended
  /\ sizePromise[r] = "pending"
  /\ sizePromise' = [sizePromise EXCEPT ![r] = "resolved"]
  /\ statSize' = [statSize EXCEPT ![r] = StatSize(r)]
  /\ UNCHANGED <<variant, dest, meta, pc, cur, raw, decision, child, toolPromise,
                 sinkPromise, sink, tmp, fetchPromises, report, reportOutcome,
                 reportCalls, proc, exitCode>>
  /\ UNCHANGED <<bytes, disposed>>

----------------------------------------------------------------------------
\* The report GET

\* fetch(REPORT_URL) resolves: .then(res => res.arrayBuffer()) starts reading
ReportResponse(ok) ==
  /\ Suspended
  /\ report = "pending"
  /\ report' = "reading"
  /\ reportOutcome' = IF ok THEN "ok" ELSE "bad"
  /\ UNCHANGED <<variant, dest, meta, pc, cur, raw, decision, child, toolPromise,
                 sizePromise, sinkPromise, sink, tmp, fetchPromises, reportCalls,
                 proc, exitCode>>
  /\ UNCHANGED <<bytes, statSize, disposed>>

\* mutant: the rejection of the report GET is not caught
ReportNetErr_Throws ==
  /\ Suspended
  /\ report = "pending"
  /\ report' = "settled"
  /\ reportOutcome' = "neterr"
  /\ Exit(1)
  /\ UNCHANGED <<variant, dest, meta, pc, cur, raw, decision, child, toolPromise,
                 sizePromise, sinkPromise, sink, tmp, fetchPromises, reportCalls>>
  /\ UNCHANGED <<bytes, statSize, disposed>>

\* fetch(REPORT_URL) rejects: .catch(noop)
ReportNetErr ==
  /\ Suspended
  /\ report = "pending"
  /\ report' = "settled"
  /\ reportOutcome' = "neterr"
  /\ UNCHANGED <<variant, dest, meta, pc, cur, raw, decision, child, toolPromise,
                 sizePromise, sinkPromise, sink, tmp, fetchPromises, reportCalls,
                 proc, exitCode>>
  /\ UNCHANGED <<bytes, statSize, disposed>>

\* the body read of the report response settles (a failed read is swallowed)
ReportBodyDone ==
  /\ Suspended
  /\ report = "reading"
  /\ report' = "settled"
  /\ UNCHANGED <<variant, dest, meta, pc, cur, raw, decision, child, toolPromise,
                 sizePromise, sinkPromise, sink, tmp, fetchPromises, reportOutcome,
                 reportCalls, proc, exitCode>>
  /\ UNCHANGED <<bytes, statSize, disposed>>

----------------------------------------------------------------------------
\* main()

Rest == <<variant, dest, meta>>

\* mutant: a configured rendition is generated whatever the policy says
NextStop_IgnoresPolicy(from) ==
  IF from = "ogp" /\ dest["ogp"] # "none" THEN "ogp"
  ELSE IF from \in {"ogp", "main"} /\ dest["main"] # "none" THEN "main"
  ELSE "report"

\* the next place main() suspends when it reaches the OGP block, the Main
\* block or the report line
NextStop(from) ==
  IF from = "ogp" /\ Decide("ogp") = "generate" THEN "ogp"
  ELSE IF from \in {"ogp", "main"} /\ Decide("main") = "generate" THEN "main"
  ELSE "report"

\* the rendition conditions main() evaluates on the way to that place
Evaluated(r, from, stop) ==
  IF r = "ogp" THEN from = "ogp"
  ELSE (from = "ogp" /\ stop # "ogp") \/ from = "main"

\* main() runs on from the OGP block, the Main block or the report line up
\* to its next await
Proceed(from) ==
  LET stop == NextStop(from) IN
  /\ decision' = [r \in Renditions |->
                    IF Evaluated(r, from, stop) THEN Decide(r) ELSE decision[r]]
  /\ IF stop \in Renditions
     THEN /\ cur' = stop
          /\ child' = [child EXCEPT ![stop] = [state |-> "running", code |-> 0, out |-> "none"]]
          /\ toolPromise' = [toolPromise EXCEPT ![stop] = "pending"]
          /\ IF variant = "file"
             THEN /\ pc' = "awaitEnc"
                  /\ UNCHANGED <<sink, sinkPromise, fetchPromises>>
             ELSE /\ pc' = "awaitAll"
                  /\ sink' = [sink EXCEPT ![stop] = NewSink(dest[stop])]
                  /\ sinkPromise' = [sinkPromise EXCEPT ![stop] = "pending"]
                  /\ fetchPromises' = fetchForExecution(stop)
          /\ UNCHANGED <<report, reportCalls>>
     ELSE /\ UNCHANGED <<cur, child, toolPromise, sink, sinkPromise, fetchPromises>>
          /\ IF variant = "file"
             THEN /\ pc' = "awaitReport"
                  /\ report' = "pending"
                  /\ reportCalls' = reportCalls + 1
             ELSE /\ pc' = "awaitFetches"
                  /\ UNCHANGED <<report, reportCalls>>

\* main() starts: spawnFFprobe
MainStart ==
  /\ proc = "running"
  /\ pc = "start"
  /\ child' = [child EXCEPT !["probe"] = [state |-> "running", code |-> 0, out |-> "none"]]
  /\ toolPromise' = [toolPromise EXCEPT !["probe"] = "pending"]
  /\ pc' = "awaitProbe"
  /\ UNCHANGED <<Rest, cur, raw, decision, sizePromise, sinkPromise, sink, tmp,
                 fetchPromises, report, reportOutcome, reportCalls, proc, exitCode>>
  /\ UNCHANGED <<bytes, statSize, disposed>>

\* the probe promise resolved: pipe the text into the probe sink
MainProbeDeliver ==
  /\ Resumes("awaitProbe", "resolved")
  /\ raw' = child["probe"].out
  /\ sink' = [sink EXCEPT !["probe"] = SizedSink(dest["probe"], TextBytes)]
  /\ sinkPromise' = [sinkPromise EXCEPT !["probe"] = "pending"]
  /\ fetchPromises' = fetchForExecution("probe")
  /\ pc' = "awaitProbeDelivery"
  /\ UNCHANGED <<Rest, cur, decision, child, toolPromise, sizePromise, tmp,
                 report, reportOutcome, reportCalls, proc, exitCode>>
  /\ UNCHANGED <<bytes, statSize, disposed>>

\* the probe delivery signalled completion: JSON.parse, the policy inputs,
\* then the OGP block
MainAnalyze ==
  /\ Resumes("awaitProbeDelivery", "resolved")
  /\ IF raw = "garbage"
     THEN /\ Exit(1)
          /\ UNCHANGED <<pc, cur, decision, child, toolPromise, sinkPromise, sink,
                         fetchPromises, report, reportCalls>>
     ELSE /\ Proceed("ogp")
          /\ UNCHANGED <<proc, exitCode>>
  /\ UNCHANGED <<Rest, raw, sizePromise, tmp, reportOutcome>>
  /\ UNCHANGED <<bytes, statSize, disposed>>

\* sized-file variant: the encoder promise resolved with the artifact: file.getSize()
MainGetSize ==
  /\ Resumes("awaitEnc", "resolved")
  /\ sizePromise' = [sizePromise EXCEPT ![cur] = "pending"]
  /\ pc' = "awaitSize"
  /\ UNCHANGED <<Rest, cur, raw, decision, child, toolPromise, sinkPromise, sink,
                 tmp, fetchPromises, report, reportOutcome, reportCalls, proc, exitCode>>
  /\ UNCHANGED <<bytes, statSize, disposed>>

\* sized-file variant: createOutStream, file.getReader().pipe(outStream)
MainDeliver ==
  /\ Resumes("awaitSize", "resolved")
  /\ sink' = [sink EXCEPT ![cur] = SizedSink(dest[cur], statSize[cur])]
  /\ sinkPromise' = [sinkPromise EXCEPT ![cur] = "pending"]
  /\ pc' = "awaitDelivery"
  /\ UNCHANGED <<Rest, cur, raw, decision, child, toolPromise, sizePromise, tmp,
                 fetchPromises, report, reportOutcome, reportCalls, proc, exitCode>>
  /\ UNCHANGED <<bytes, statSize, disposed>>

\* mutant: the disposal leaves the file on disk
Dispose_KeepsFile(r) == tmp

\* [Symbol.dispose] of the artifact: fs.unlinkSync(filename)
Dispose(r) == [tmp EXCEPT ![r] = "absent"]

\* one more run of the disposal of r's artifact
Disposal(r) == [disposed EXCEPT ![r] = @ + 1]

\* the rendition block ends: the artifact leaves scope, main() goes on
MainAfterRendition ==
  /\ \/ variant = "file" /\ Resumes("awaitDelivery", "resolved")
     \/ variant = "stream" /\ Resumes("awaitAll", "resolved")
  /\ tmp' = IF variant = "file" THEN Dispose(cur) ELSE tmp
  /\ disposed' = IF variant = "file" THEN Disposal(cur) ELSE disposed
  /\ Proceed(IF cur = "ogp" THEN "main" ELSE "report")
  /\ UNCHANGED <<Rest, raw, sizePromise, reportOutcome, proc, exitCode>>
  /\ UNCHANGED <<bytes, statSize>>

\* streaming variant: ensureAllFetchesDone() resolved, the report GET is issued
MainReport ==
  /\ Resumes("awaitFetches", "resolved")
  /\ report' = "pending"
  /\ reportCalls' = reportCalls + 1
  /\ pc' = "awaitReport"
  /\ UNCHANGED <<Rest, cur, raw, decision, child, toolPromise, sizePromise,
                 sinkPromise, sink, tmp, fetchPromises, reportOutcome, proc, exitCode>>
  /\ UNCHANGED <<bytes, statSize, disposed>>

\* the report chain settled: main() logs and returns
MainFinish ==
  /\ Resumes("awaitReport", "resolved")
  /\ pc' = "done"
  /\ UNCHANGED <<Rest, cur, raw, decision, child, toolPromise, sizePromise,
                 sinkPromise, sink, tmp, fetchPromises, report, reportOutcome,
                 reportCalls, proc, exitCode>>
  /\ UNCHANGED <<bytes, statSize, disposed>>

\* an artifact declared with `using` is in scope after its await returned
InScope == variant = "file" /\ pc \in {"awaitSize", "awaitDelivery"}

\* the awaited promise rejected: main() throws, scoped artifacts are
\* disposed, the unhandled rejection ends the process
MainThrow ==
  /\ proc = "running"
  /\ Awaited = "rejected"
  /\ tmp' = IF InScope THEN Dispose(cur) ELSE tmp
  /\ disposed' = IF InScope THEN Disposal(cur) ELSE disposed
  /\ Exit(1)
  /\ UNCHANGED <<Rest, pc, cur, raw, decision, child, toolPromise, sizePromise,
                 sinkPromise, sink, fetchPromises, report, reportOutcome, reportCalls>>
  /\ UNCHANGED <<bytes, statSize>>

\* nothing keeps the event loop alive
Idle ==
  \A t \in Targets :
    /\ child[t].state \in {"none", "closed"}
    /\ sink[t].fetch # "pending"
    /\ sink[t].drain # "reading"

\* main() returned and the event loop is empty: the process exits with 0
ExitWhenIdle ==
  /\ proc = "running"
  /\ pc = "done"
  /\ Idle
  /\ Exit(0)
  /\ UNCHANGED <<Rest, pc, cur, raw, decision, child, toolPromise, sizePromise,
                 sinkPromise, sink, tmp, fetchPromises, report, reportOutcome, reportCalls>>
  /\ UNCHANGED <<bytes, statSize, disposed>>

----------------------------------------------------------------------------
ExitCodes == {0, 1}
ProbeOutputs == {"json", "garbage"}

Next ==
  \/ MainStart
  \/ \E code \in ExitCodes, out \in ProbeOutputs : ProbeExit(code, out)
  \/ ProbeStdoutEnd
  \/ \E r \in Renditions : EncWrite(r)
  \/ \E r \in Renditions, code \in ExitCodes : EncExit(r, code)
  \/ \E r \in Renditions : EncStdoutEnd(r)
  \/ \E t \in Targets : ChildClose(t)
  \/ \E d \in Targets : FeedEnd(d)
  \/ \E r \in Renditions : ReaderError(r)
  \/ \E d \in Targets, ok \in BOOLEAN : FetchResponse(d, ok)
  \/ \E d \in Targets : FetchNetErr(d)
  \/ \E d \in Targets, how \in {"done", "failed"} : DrainSettle(d, how)
  \/ \E d \in Targets : LocalFinish(d)
  \/ \E d \in Targets : LocalError(d)
  \/ \E d \in Targets : PassFinish(d)
  \/ \E r \in Renditions : StatDone(r)
  \/ \E ok \in BOOLEAN : ReportResponse(ok)
  \/ ReportNetErr
  \/ ReportBodyDone
  \/ MainProbeDeliver
  \/ MainAnalyze
  \/ MainGetSize
  \/ MainDeliver
  \/ MainAfterRendition
  \/ MainReport
  \/ MainFinish
  \/ MainThrow
  \/ ExitWhenIdle

Spec == Init /\ [][Next]_vars

TypeOK ==
  /\ proc \in {"running", "exited"}
  /\ exitCode \in ExitCodes
  /\ reportCalls \in 0..1

----------------------------------------------------------------------------
\* Properties

Sized == variant = "file"
Exited == proc = "exited"
Terminated(t) == child[t].state \in {"exited", "ended", "closed"}
ToolFailed(t) == Terminated(t) /\ child[t].code # 0
Spawned(t) == child[t].state # "none"
UploadFailed(d) == sink[d].fetch \in {"bad", "neterr"}
DeliveryFailed(d) == UploadFailed(d) \/ sink[d].file = "error"
\* remote: the PUT received a 2xx response; local: the write stream finished
DeliveredOk(d) ==
  \/ sink[d].kind = "remote" /\ sink[d].fetch = "ok"
  \/ sink[d].kind = "local" /\ sink[d].file = "finished"
ReportIssued == report # "none"

\* C1: sized-file variant: when the process has exited, the temporary file of
\* every rendition whose delivery was started no longer exists, whether the
\* delivery succeeded or failed.
C1_TempFileGoneAtExit ==
  (Sized /\ Exited) =>
    \A r \in Renditions :
      (DeliveredOk(r) \/ DeliveryFailed(r)) => tmp[r] = "absent"

\* C2: sized-file variant: once the encoder closed with a non-zero code, the
\* promise of spawnFFmpeg is rejected and the temporary output path does not
\* exist, even if the encoder had written to it.
C2_FailedEncoderLeavesNoFile ==
  \A r \in Renditions :
    (Sized /\ child[r].state = "closed" /\ child[r].code # 0) =>
      (toolPromise[r] = "rejected" /\ tmp[r] = "absent")

\* C3: when the probe process exits with a non-zero code, no probe delivery is
\* started, no rendition decision is evaluated, no encoder is spawned, and the
\* process exits non-zero, whatever the probe wrote to stdout.
C3_ProbeFailureAborts ==
  ToolFailed("probe") =>
    /\ sink["probe"].kind = "none"
    /\ \A r \in Renditions : decision[r] = "unevaluated" /\ ~Spawned(r)
    /\ Exited => exitCode # 0

\* C4: sized-file variant: if OGP generation or OGP delivery failed, the Main
\* encoder is never spawned, no Main delivery is started and the report call
\* is never issued.
C4_OgpFailureAborts ==
  (Sized /\ (ToolFailed("ogp") \/ DeliveryFailed("ogp"))) =>
    /\ ~Spawned("main")
    /\ sink["main"].kind = "none"
    /\ ~ReportIssued /\ reportCalls = 0

C4_Witness ==
  /\ Sized /\ Exited
  /\ sink["ogp"].file = "error"
  /\ Decide("main") = "generate"

\* C5: sized-file variant: a rendition decision is evaluated or an encoder is
\* spawned only after the probe process has finished and the probe delivery
\* has signalled completion.
C5_ProbeDeliveredBeforePolicy ==
  (Sized /\ \E r \in Renditions : decision[r] # "unevaluated" \/ Spawned(r)) =>
    (Terminated("probe") /\ DeliveredOk("probe"))

C5_Witness ==
  /\ Sized
  /\ sink["probe"].kind = "remote"
  /\ child["ogp"].state = "running"

\* C6: sized-file variant: a rendition's delivery sink exists, and bytes are
\* handed to it, only after that rendition's encoder closed with code 0.
C6_EncodeBeforeDelivery ==
  \A r \in Renditions :
    (Sized /\ sink[r].kind # "none") =>
      (child[r].state = "closed" /\ child[r].code = 0)

C6_Witness ==
  /\ Sized
  /\ sink["main"].feed = "feeding"

\* C7: when a remote upload answers non-2xx or fails with a network error,
\* the process has exited with a non-zero code and no report call was issued.
C7_UploadFailureIsFatal ==
  \A d \in Targets :
    UploadFailed(d) =>
      (Exited /\ exitCode # 0 /\ ~ReportIssued /\ reportCalls = 0)

C7_Witness ==
  /\ Exited
  /\ variant = "stream"
  /\ sink["main"].fetch = "bad"

\* C8: the report GET is issued at most once, and only when every rendition
\* with a configured destination was skipped by policy or was generated and
\* its delivery completed successfully.
C8_ReportAfterRenditions ==
  /\ reportCalls <= 1
  /\ ReportIssued =>
       \A r \in Renditions :
         dest[r] # "none" =>
           \/ decision[r] = "skip"
           \/ decision[r] = "generate" /\ DeliveredOk(r)

C8_Witness ==
  /\ ReportIssued
  /\ variant = "stream"
  /\ decision["ogp"] = "generate" /\ sink["ogp"].kind = "remote"
  /\ decision["main"] = "skip"

AllSucceeded ==
  /\ child["probe"].state = "closed" /\ child["probe"].code = 0
  /\ raw = "json"
  /\ DeliveredOk("probe")
  /\ \A r \in Renditions :
       \/ decision[r] \in {"unconfigured", "skip"}
       \/ /\ decision[r] = "generate"
          /\ child[r].state = "closed" /\ child[r].code = 0
          /\ DeliveredOk(r)

\* C9: if the probe, its delivery and every required rendition succeeded, the
\* process exits with code 0, and no outcome of the report GET (success,
\* error status, network error) makes the exit code non-zero.
C9_ReportFailureNotFatal ==
  Exited =>
    /\ AllSucceeded => exitCode = 0
    /\ reportOutcome # "none" => exitCode = 0

C9_Witness ==
  /\ Exited /\ exitCode = 0
  /\ AllSucceeded
  /\ reportOutcome = "bad"

\* C10: when the process has exited, the response body of every remote upload
\* that received a response (2xx or not) was read to its end, unless that
\* read itself failed.
C10_ResponsesDrained ==
  Exited =>
    \A d \in Targets :
      sink[d].fetch \in {"ok", "bad"} => sink[d].drain \in {"done", "failed"}

\* C11: every background network call (the PUTs and the response-body reads
\* started after them) has settled when the report call is issued and when
\* the process exits.
C11_BackgroundCallsSettled ==
  (ReportIssued \/ Exited) =>
    \A d \in Targets : sink[d].fetch # "pending" /\ sink[d].drain # "reading"

----------------------------------------------------------------------------
\* The rendition policy on its own: main()'s skip conditions evaluated for
\* every media of AllMedia

InitPolicy ==
  /\ variant = "file"
  /\ dest \in [Targets -> {"none", "remote"}]
  /\ dest["probe"] = "remote"
  /\ meta \in AllMedia
  /\ pc = "awaitProbeDelivery"
  /\ cur = "probe"
  /\ raw = "json"
  /\ decision = [r \in Renditions |-> "unevaluated"]
  /\ child = [t \in Targets |-> NoChild]
  /\ toolPromise = [t \in Targets |-> "none"]
  /\ sizePromise = [r \in Renditions |-> "none"]
  /\ sinkPromise = [t \in Targets |-> "none"]
  /\ sink = [t \in Targets |-> NoSink]
  /\ tmp = [r \in Renditions |-> "absent"]
  /\ fetchPromises = <<>>
  /\ report = "none"
  /\ reportOutcome = "none"
  /\ reportCalls = 0
  /\ proc = "running"
  /\ exitCode = 0
  /\ bytes = [r \in Renditions |-> 0]
  /\ statSize = [r \in Renditions |-> NoLength]
  /\ disposed = [r \in Renditions |-> 0]

\* the condition of the OGP block
EvaluateOgp ==
  /\ decision["ogp"] = "unevaluated"
  /\ decision' = [decision EXCEPT !["ogp"] = Decide("ogp")]
  /\ UNCHANGED <<variant, dest, meta, pc, cur, raw, child, toolPromise, sizePromise,
                 sinkPromise, sink, tmp, fetchPromises, report, reportOutcome,
                 reportCalls, proc, exitCode>>
  /\ UNCHANGED <<bytes, statSize, disposed>>

\* the condition of the Main block
EvaluateMain ==
  /\ decision["ogp"] # "unevaluated"
  /\ decision["main"] = "unevaluated"
  /\ decision' = [decision EXCEPT !["main"] = Decide("main")]
  /\ UNCHANGED <<variant, dest, meta, pc, cur, raw, child, toolPromise, sizePromise,
                 sinkPromise, sink, tmp, fetchPromises, report, reportOutcome,
                 reportCalls, proc, exitCode>>
  /\ UNCHANGED <<bytes, statSize, disposed>>

NextPolicy == EvaluateOgp \/ EvaluateMain

SpecPolicy == InitPolicy /\ [][NextPolicy]_vars

\* the height the claims speak of: a missing height counts as 0
StatedHeight == IF meta.height = Missing THEN 0 ELSE meta.height

\* C12: with an OGP destination configured, OGP is skipped if and only if the
\* filename ends in .mp4, the video codec is h264, height <= 720, duration <=
\* 480 and size <= 50 MiB; anything else, an absent video stream and a NaN
\* duration or size included, gives "generate".
C12_OgpPolicy ==
  (dest["ogp"] # "none" /\ decision["ogp"] # "unevaluated") =>
    /\ decision["ogp"] \in {"skip", "generate"}
    /\ decision["ogp"] = "skip" <=>
         /\ meta.mp4
         /\ meta.video = "h264"
         /\ StatedHeight <= 720
         /\ meta.duration # NaN /\ meta.duration <= 480
         /\ meta.size # NaN /\ meta.size <= 52428800
    /\ (meta.video = "none" \/ meta.duration = NaN \/ meta.size = NaN)
         => decision["ogp"] = "generate"

C12_Witness ==
  /\ decision["ogp"] = "skip"
  /\ meta.height = 720 /\ meta.duration = 480 /\ meta.size = 52428800

\* C13: with a Main destination configured, Main is skipped if and only if the
\* filename ends in .mp4, the video codec is h264 and height <= 1080; the
\* decision is the same for every duration, size and audio stream.
C13_MainPolicy ==
  (dest["main"] # "none" /\ decision["main"] # "unevaluated") =>
    /\ decision["main"] \in {"skip", "generate"}
    /\ decision["main"] = "skip" <=>
         (meta.mp4 /\ meta.video = "h264" /\ StatedHeight <= 1080)
    /\ \A m \in AllMedia :
         (m.mp4 = meta.mp4 /\ m.video = meta.video /\ m.height = meta.height)
           => (MainSkip(m) <=> decision["main"] = "skip")

C13_Witness ==
  /\ decision["main"] = "skip"
  /\ meta.height = 1080 /\ meta.duration = NaN /\ meta.audio = "none"

AllSkipped == \A r \in Renditions : decision[r] \in {"skip", "unconfigured"}

C15_ContentLengthExact ==
  \A r \in Renditions :
    (Sized /\ sink[r].kind = "remote") =>
      /\ child[r].state = "closed" /\ child[r].code = 0
      /\ sink[r].length = bytes[r]
      /\ sink[r].feed = "ended" => sink[r].sent = sink[r].length

C15_Witness ==
  /\ Sized
  /\ sink["ogp"].fetch = "ok"
  /\ sink["ogp"].length = MaxBytes /\ sink["ogp"].sent = MaxBytes

\* C16: sized-file variant: the disposal of every artifact spawnFFmpeg
\* returned runs exactly once on every exit path, never twice, and never
\* while the artifact's reader is still feeding the delivery sink.
C16_DisposedExactlyOnce ==
  \A r \in Renditions :
    Sized =>
      /\ disposed[r] <= 1
      /\ (Exited /\ toolPromise[r] = "resolved") => disposed[r] = 1
      /\ disposed[r] = 1 => sink[r].feed # "feeding"

\* main() has reached ensureAllFetchesDone()
DrainStarted == pc \in {"awaitFetches", "awaitReport", "done"}
Resolved(r) ==
  \/ decision[r] \in {"skip", "unconfigured"}
  \/ /\ decision[r] = "generate"
     /\ toolPromise[r] = "resolved" /\ sinkPromise[r] = "resolved"
Recorded == {fetchPromises[i] : i \in 1..Len(fetchPromises)}

\* C17: streaming variant: nothing is appended to fetchPromises once
\* ensureAllFetchesDone has started, the drain starts only after both
\* renditions are resolved, and every recorded PUT has settled before the
\* report call is issued.
C17_AppendBeforeDrain ==
  [][ variant = "stream" =>
        /\ DrainStarted => fetchPromises' = fetchPromises
        /\ DrainStarted' => \A r \in Renditions : Resolved(r)'
        /\ ReportIssued' => \A d \in Recorded' : sink'[d].fetch # "pending" ]_vars

C17_Witness ==
  /\ variant = "stream"
  /\ ReportIssued
  /\ Len(fetchPromises) = 3

\* C18: streaming variant: a rendition's upload is complete at its
\* destination (body ended and 2xx received, or local file finished) only if
\* that rendition's encoder exited with code 0.
C18_NoTruncatedUpload ==
  \A r \in Renditions :
    (variant = "stream" /\ DeliveredOk(r)) =>
      (Terminated(r) /\ child[r].code = 0)

\* C19: sized-file variant: at most one encoder process is alive and at most
\* one temporary file exists in every state, and the OGP artifact has been
\* disposed (its file is gone) before the Main encoder is spawned.
C19_OneArtifactAtATime ==
  Sized =>
    /\ Cardinality({r \in Renditions : child[r].state \notin {"none", "closed"}}) <= 1
    /\ Cardinality({r \in Renditions : tmp[r] = "present"}) <= 1
    /\ Spawned("main") =>
         /\ tmp["ogp"] = "absent"
         /\ Spawned("ogp") => (child["ogp"].state = "closed" /\ disposed["ogp"] = 1)

C19_Witness ==
  /\ Sized
  /\ disposed["ogp"] = 1 /\ bytes["ogp"] > 0
  /\ child["main"].state = "running" /\ tmp["main"] = "present"

\* Every enabled step is eventually taken: child processes exit, file I/O and
\* HTTP requests complete, and queued continuations of main() run.
SpecFair == Spec /\ WF_vars(Next)

\* C20: sized-file variant: under fair scheduling every run terminates; main()
\* is never left suspended on a completion signal that cannot settle, also
\* when the temporary file's read stream or the destination write stream
\* errors in the middle of a transfer.
C20_Terminates == Sized => <>Exited

C20_Witness ==
  /\ Sized /\ Exited
  /\ \E r \in Renditions : sink[r].feed \in {"error", "unpiped"}

====
